---- MODULE Spec2Model ----
(***************************************************************************)
(* Airline Strategic Network Planner (app.py): the cached record table,    *)
(* the audit engine run_audit, the forecast engine get_forecast and the    *)
(* script run that drives them.                                            *)
(*                                                                         *)
(* Conventions.  A DataFrame is the set of its rows (records); a result    *)
(* whose row order matters (the forecast series) is a sequence.  Money is  *)
(* whole dollars, Yield is in 1e-4 dollars per passenger mile.  A float is *)
(* a record [kind, n, d]: kind "num" is the rational n/d (d > 0), the      *)
(* other kinds are the IEEE results of a division by zero.  The status     *)
(* labels are the source's without their leading emoji.                    *)
(***************************************************************************)
EXTENDS Integers, Sequences, FiniteSets, TLC

VARIABLES
    columns,       \* column names of the cached table df
    df,            \* rows of the cached table (load_data's return value)
    loaded,        \* [columns, rows] as load_data returned them (history)
    call,          \* the invocation that ran last and its arguments
    audit,         \* run_audit's return value in that invocation
    kpi,           \* the KPI row of the page
    view_df,       \* tab2's table
    fc,            \* get_forecast's return value (or the exception raised)
    warning        \* st.warning("No data found for Hub ...") was shown

vars == <<columns, df, loaded, call, audit, kpi, view_df, fc, warning>>

(***************************************************************************)
(* Bounds of the input data.                                               *)
(***************************************************************************)
MaxRows == 3

Hubs == {"JFK", "LAX"}
AuditYears == {2021, 2022}
Dests == {"LHR", "YXU"}
Airlines == {"AA", "BA"}
PassengerCounts == {0, 1, 4}

DestCity(d) == "London"
DestCountry(d) == IF d = "LHR" THEN "United Kingdom" ELSE "Canada"
DestDistance(d) == IF d = "LHR" THEN 3451 ELSE 500

NameColumns == {"YEAR", "MONTH", "ORIGIN", "DEST", "ORIGIN_CITY_NAME",
                "DEST_CITY_NAME", "DEST_COUNTRY_NAME", "CARRIER_NAME",
                "PASSENGERS", "SEATS", "DEPARTURES_PERFORMED", "DISTANCE"}
CodeColumns == {"YEAR", "MONTH", "ORIGIN", "DEST", "UNIQUE_CARRIER",
                "PASSENGERS", "SEATS", "DEPARTURES_PERFORMED", "DISTANCE"}
Schemas == {NameColumns, CodeColumns}

\* One CSV row of a file with the columns cols.
CsvRow(cols, y, m, o, d, a, p, s, dep) ==
    IF "DEST_CITY_NAME" \in cols
    THEN [YEAR |-> y, MONTH |-> m, ORIGIN |-> o, DEST |-> d,
          ORIGIN_CITY_NAME |-> o, DEST_CITY_NAME |-> DestCity(d),
          DEST_COUNTRY_NAME |-> DestCountry(d), CARRIER_NAME |-> a,
          PASSENGERS |-> p, SEATS |-> s, DEPARTURES_PERFORMED |-> dep,
          DISTANCE |-> DestDistance(d)]
    ELSE [YEAR |-> y, MONTH |-> m, ORIGIN |-> o, DEST |-> d,
          UNIQUE_CARRIER |-> a,
          PASSENGERS |-> p, SEATS |-> s, DEPARTURES_PERFORMED |-> dep,
          DISTANCE |-> DestDistance(d)]

(***************************************************************************)
(* Floats.                                                                 *)
(***************************************************************************)
Num(n, d) == [kind |-> "num", n |-> n, d |-> d]

\* a / b * 100 on float64 columns: a division by zero raises nothing.
PctDiv(a, b) ==
    IF b > 0 THEN Num(100 * a, b)
    ELSE IF b < 0 THEN Num(-100 * a, -b)
    ELSE IF a > 0 THEN [kind |-> "+inf", n |-> 0, d |-> 1]
    ELSE IF a < 0 THEN [kind |-> "-inf", n |-> 0, d |-> 1]
    ELSE [kind |-> "nan", n |-> 0, d |-> 1]

\* x > c and x <= c for a float x and an integer c; both are False on NaN.
FGt(x, c) ==
    \/ x.kind = "+inf"
    \/ x.kind = "num" /\ x.n > c * x.d
FLe(x, c) ==
    \/ x.kind = "-inf"
    \/ x.kind = "num" /\ x.n <= c * x.d

RECURSIVE SumField(_, _)
SumField(S, f) ==
    IF S = {} THEN 0
    ELSE LET r == CHOOSE x \in S : TRUE
         IN r[f] + SumField(S \ {r}, f)

SetMax(S) == CHOOSE x \in S : \A y \in S : y <= x

(***************************************************************************)
(* 1. load_data                                                            *)
(***************************************************************************)
LabelColumns == {"Airline_Label", "Origin_Label", "Dest_Label", "Region"}

AirlineLabelOf(cols, r) ==
    IF "CARRIER_NAME" \in cols THEN r.CARRIER_NAME
    ELSE IF "UNIQUE_CARRIER" \in cols THEN r.UNIQUE_CARRIER
    ELSE "Unknown"

OriginLabelOf(cols, r) ==
    IF "ORIGIN_CITY_NAME" \in cols THEN r.ORIGIN_CITY_NAME
    ELSE IF "ORIGIN" \in cols THEN r.ORIGIN
    ELSE "Unknown"

DestLabelOf(cols, r) ==
    IF "DEST_CITY_NAME" \in cols THEN r.DEST_CITY_NAME
    ELSE IF "DEST" \in cols THEN r.DEST
    ELSE "Unknown"

RegionOf(cols, r) ==
    IF "DEST_COUNTRY_NAME" \in cols THEN r.DEST_COUNTRY_NAME
    ELSE IF "DEST_STATE_ABR" \in cols THEN r.DEST_STATE_ABR
    ELSE "Global"

\* The table built from the concatenated CSV rows csv with the columns cols.
load_data(cols, csv) ==
    LET seated == {r \in csv : r.SEATS > 0}
        flown  == IF "DEPARTURES_PERFORMED" \in cols
                  THEN {r \in seated : r.DEPARTURES_PERFORMED > 0}
                  ELSE seated
    IN [columns |-> cols \cup LabelColumns,
        rows |-> {r @@ [Airline_Label |-> AirlineLabelOf(cols, r),
                        Origin_Label  |-> OriginLabelOf(cols, r),
                        Dest_Label    |-> DestLabelOf(cols, r),
                        Region        |-> RegionOf(cols, r)] : r \in flown}]

(***************************************************************************)
(* 2. run_audit                                                            *)
(***************************************************************************)
HourlyRate == 5500 + (850 * 280) \div 100

\* 0.6 * DISTANCE ** -0.15 in 1e-4 dollars: exact to four places at the
\* knots 250, 500, ..., 8000 and linear in between.
YieldKnot(k) ==
    CASE k = 250  -> 2621
      [] k = 500  -> 2362
      [] k = 1000 -> 2129
      [] k = 2000 -> 1919
      [] k = 4000 -> 1729
      [] OTHER    -> 1558

YieldE4(dist) ==
    LET lo == CHOOSE k \in {250, 500, 1000, 2000, 4000} :
                  k <= dist /\ dist <= 2 * k
    IN YieldKnot(lo) - ((dist - lo) * (YieldKnot(lo) - YieldKnot(2 * lo))) \div lo

GroupKey(r) == <<r.Region, r.Dest_Label, r.Airline_Label>>

\* stats after the groupby/agg of lines 70-73: one row per group.
Aggregate(data) ==
    {LET g == {r \in data : GroupKey(r) = k}
     IN [Region |-> k[1], Dest_Label |-> k[2], Airline_Label |-> k[3],
         PASSENGERS |-> SumField(g, "PASSENGERS"),
         SEATS |-> SumField(g, "SEATS"),
         DEPARTURES_PERFORMED |-> SumField(g, "DEPARTURES_PERFORMED"),
         DISTANCE |-> SumField(g, "DISTANCE") \div Cardinality(g)]
     : k \in {GroupKey(r) : r \in data}}

Revenue(s) == (s.PASSENGERS * s.DISTANCE * YieldE4(s.DISTANCE)) \div 10000
Cost(s) == (s.DEPARTURES_PERFORMED * HourlyRate * (2 * s.DISTANCE + 450)) \div 900
Profit(s) == Revenue(s) - Cost(s)
Margin(s) == PctDiv(Profit(s), Revenue(s))

\* city_totals of lines 83-84, looked up as the merge of line 85 does.
CityTotal(stats, dest) ==
    SumField({s \in stats : s.Dest_Label = dest}, "PASSENGERS")

MarketShare(s, total) == PctDiv(s.PASSENGERS, total)

\* np.select over the three conditions; its default fills the rows that
\* meet none of them with 0, which the string result holds as "0".
Status(share) ==
    IF FGt(share, 50) THEN "Monopoly"
    ELSE IF FGt(share, 20) /\ FLe(share, 50) THEN "Competitive"
    ELSE IF FLe(share, 20) THEN "Minor Player"
    ELSE "0"

MaxYear(rows) == SetMax({r.YEAR : r \in rows})

\* data of line 65, had max_year been the hub's own latest year.
HubDataOwnYear(rows, hub) ==
    {r \in rows : r.ORIGIN = hub
                  /\ \A x \in rows : x.ORIGIN = hub => x.YEAR <= r.YEAR}

HubData(rows, hub) ==
    IF rows = {} THEN {}
    ELSE {r \in rows : r.YEAR = MaxYear(rows) /\ r.ORIGIN = hub}

NoFrame == [state |-> "None", rows |-> {}]
UnsetFrame == [state |-> "unset", rows |-> {}]

run_audit(rows, hub) ==
    LET data  == HubData(rows, hub)
        stats == Aggregate(data)
    IN IF data = {} THEN NoFrame
       ELSE [state |-> "frame",
             rows |-> {LET total == CityTotal(stats, s.Dest_Label)
                           share == MarketShare(s, total)
                       IN s @@ [Yield |-> YieldE4(s.DISTANCE),
                                Revenue |-> Revenue(s),
                                Cost |-> Cost(s),
                                Profit |-> Profit(s),
                                Margin |-> Margin(s),
                                City_Total |-> total,
                                Market_Share |-> share,
                                Status |-> Status(share)]
                       : s \in stats}]

(***************************************************************************)
(* 3. get_forecast                                                         *)
(***************************************************************************)
CovidYears == {2020, 2021}
MinTrainingPoints == 12
ForecastMonths == 1..12

\* The keys (YEAR, MONTH) of a frame in the order groupby gives them:
\* by YEAR, then by MONTH.  A key <<y, m>> sorts as the number 12 * y + m - 1.
SortKeys(keys) ==
    IF keys = {} THEN <<>>
    ELSE LET ord == {12 * k[1] + k[2] - 1 : k \in keys}
             lo  == CHOOSE x \in ord : \A y \in ord : x <= y
             hi  == SetMax(ord)
         IN SelectSeq([i \in 1..(hi - lo + 1) |->
                          <<(lo + i - 1) \div 12, ((lo + i - 1) % 12) + 1>>],
                      LAMBDA k : k \in keys)

\* route of lines 99-100; the city-name match comes first.
Route(rows, origin, dest) ==
    LET byCity == {r \in rows : r.ORIGIN = origin /\ r.DEST_CITY_NAME = dest}
    IN IF byCity # {} THEN byCity
       ELSE {r \in rows : r.ORIGIN = origin /\ r.DEST = dest}

\* monthly of line 104.
Monthly(route) ==
    LET keys == SortKeys({<<r.YEAR, r.MONTH>> : r \in route})
    IN [i \in 1..Len(keys) |->
          [YEAR |-> keys[i][1], MONTH |-> keys[i][2],
           PASSENGERS |-> SumField({r \in route : r.YEAR = keys[i][1]
                                                  /\ r.MONTH = keys[i][2]},
                                   "PASSENGERS")]]

\* clean of line 105, had the Covid years been kept.
CleanKeepsCovid(monthly) == monthly

\* clean of line 105.
Clean(monthly) == SelectSeq(monthly, LAMBDA p : p.YEAR \notin CovidYears)

\* The test of line 107, had it been len(clean) <= 12.
TooFewInclusive(clean) == Len(clean) <= MinTrainingPoints

\* The test of line 107.
TooFew(clean) == Len(clean) < MinTrainingPoints

SeqRange(s) == {s[i] : i \in 1..Len(s)}

\* last_year of line 112, had it been taken from clean.
LastYearOfTraining(monthly) ==
    SetMax({p.YEAR : p \in SeqRange(monthly) \ {q \in SeqRange(monthly) :
                                                   q.YEAR \in CovidYears}})

LastYear(monthly) == SetMax({p.YEAR : p \in SeqRange(monthly)})

Tagged(points, type) ==
    [i \in 1..Len(points) |->
        [YEAR |-> points[i].YEAR, MONTH |-> points[i].MONTH,
         PASSENGERS |-> points[i].PASSENGERS, Type |-> type]]

\* future of lines 113-114, with the fitted model's predictions pred.
Future(last_year, pred) ==
    [m \in ForecastMonths |->
        [YEAR |-> last_year + 1, MONTH |-> m, PASSENGERS |-> pred[m]]]

\* What a forest fitted to clean may predict: every tree answers with a mean
\* of training targets, so each prediction lies between their extremes.
Predictions(clean) ==
    LET targets == {p.PASSENGERS : p \in SeqRange(clean)}
    IN IF targets = {} THEN {[m \in ForecastMonths |-> 0]}
       ELSE [ForecastMonths ->
                (CHOOSE x \in targets : \A y \in targets : x <= y)..SetMax(targets)]

UnsetForecast ==
    [state |-> "unset", exc |-> "", status |-> "", series |-> <<>>,
     fitted |-> FALSE, training |-> <<>>]

Raised(exc) == [UnsetForecast EXCEPT !.state = "raised", !.exc = exc]

Returned(series, status, fitted, training) ==
    [state |-> "returned", exc |-> "", status |-> status, series |-> series,
     fitted |-> fitted, training |-> training]

\* Subscripting a frame by a column it lacks raises KeyError.
ForecastColumns == {"ORIGIN", "DEST_CITY_NAME"}

get_forecast(cols, rows, origin, dest, pred) ==
    IF ~(ForecastColumns \subseteq cols) THEN Raised("KeyError")
    ELSE LET route   == Route(rows, origin, dest)
             monthly == Monthly(route)
             clean   == Clean(monthly)
         IN IF route = {} THEN Returned(<<>>, "No Data", FALSE, <<>>)
            ELSE IF TooFew(clean)
                 THEN Returned(<<>>, "Not Enough Data", FALSE, <<>>)
            ELSE Returned(Tagged(monthly, "Historical")
                            \o Tagged(Future(LastYear(monthly), pred), "Forecast"),
                          "Success", TRUE, clean)

\* The predictions the call get_forecast(df, origin, dest) can draw.
ForecastDraws(cols, rows, origin, dest) ==
    IF ~(ForecastColumns \subseteq cols) THEN Predictions(<<>>)
    ELSE LET clean == Clean(Monthly(Route(rows, origin, dest)))
         IN IF TooFew(clean) THEN Predictions(<<>>)
            ELSE Predictions(clean)

\* The caller's table after the call: both engines work on copies
\* (lines 65, 99, 100) and tag only their own frames (lines 116-117).
TableAfterAudit(rows, hub) == rows

\* The caller's table, had get_forecast dropped the Covid rows in place.
TableWithoutCovid(rows, origin, dest) == {r \in rows : r.YEAR \notin CovidYears}

TableAfterForecast(rows, origin, dest) == rows

(***************************************************************************)
(* The CSV files the loader may find.                                      *)
(***************************************************************************)
\* January rows.  JFK's rows of the latest year vary in destination,
\* carrier and passengers; the other hub and the year before have one row
\* each.
Served(d) == IF d = "LHR" THEN Airlines ELSE {"AA"}
AuditRows(cols) ==
    UNION {{CsvRow(cols, 2022, 1, "JFK", d, a, p, 100, 1) :
                a \in Served(d), p \in PassengerCounts} : d \in Dests}
    \cup {CsvRow(cols, y, 1, o, "LHR", "AA", 1, 100, 1) :
            y \in AuditYears, o \in Hubs}

RECURSIVE TablesUpTo(_, _)
TablesUpTo(U, n) ==
    IF n = 0 THEN {{}}
    ELSE LET T == TablesUpTo(U, n - 1)
         IN T \cup {t \cup {r} : t \in T, r \in U}

\* Monthly histories of the route JFK -> LHR: in each year the first k
\* months are reported, by one carrier or by two.
HistoryYears == {2019, 2021, 2022}
HistoryMonths == {0, 11, 12}
HistoryCarriers == {{"AA"}, {"AA", "BA"}}
HistoryTables(cols) ==
    {UNION {{CsvRow(cols, y, m, "JFK", "LHR", a, 1, 100, 1) :
                m \in 1..k[y], a \in As} : y \in HistoryYears}
     : k \in [HistoryYears -> HistoryMonths], As \in HistoryCarriers}

\* Rows every file set carries and the loader drops: a cargo leg without
\* seats and a route that was scheduled and never flown.
DroppedRows(cols) ==
    {CsvRow(cols, 2022, 1, "JFK", "LHR", "AA", 0, 0, 1),
     CsvRow(cols, 2022, 1, "JFK", "YXU", "BA", 0, 100, 0)}

CsvFiles(cols) ==
    {t \cup DroppedRows(cols) :
        t \in TablesUpTo(AuditRows(cols), MaxRows) \cup HistoryTables(cols)}

(***************************************************************************)
(* The page: one run of the script per interaction.                        *)
(***************************************************************************)
NoCall == [op |-> "none", hub |-> "", region |-> "", pressed |-> FALSE,
           origin |-> "", dest |-> ""]
NoKpi == [shown |-> FALSE, total_profit |-> 0, top_dest |-> "", monopolies |-> 0]

Init ==
    \E cols \in Schemas :
        \E csv \in CsvFiles(cols) :
            /\ loaded = load_data(cols, csv)
            /\ columns = loaded.columns
            /\ df = loaded.rows
            /\ call = NoCall
            /\ audit = UnsetFrame
            /\ kpi = NoKpi
            /\ view_df = {}
            /\ fc = UnsetForecast
            /\ warning = FALSE

\* Lines 144-146: the KPI row; top is the row sort_values puts first.
KpiRow(stats, top) ==
    [shown |-> TRUE,
     total_profit |-> SumField(stats, "Profit"),
     top_dest |-> top.Dest_Label,
     monopolies |-> Cardinality({s \in stats : s.Status = "Monopoly"})]

\* Lines 173-179: tab2's table for the chosen region (row order left out).
ViewDf(stats, region) ==
    {[Region |-> s.Region, Dest_Label |-> s.Dest_Label,
      Airline_Label |-> s.Airline_Label, Status |-> s.Status,
      Profit |-> s.Profit, Margin |-> s.Margin]
     : s \in {x \in stats : region = "All" \/ x.Region = region}}

\* Arguments a caller outside the page may pass.
HubArgs == Hubs
DestArgs == Dests \cup {"London"}

\* A direct call run_audit(df, hub).
CallRunAudit(hub) ==
    /\ call' = [NoCall EXCEPT !.op = "run_audit", !.hub = hub]
    /\ audit' = run_audit(df, hub)
    /\ df' = TableAfterAudit(df, hub)
    /\ kpi' = NoKpi
    /\ view_df' = {}
    /\ fc' = UnsetForecast
    /\ warning' = FALSE
    /\ UNCHANGED <<columns, loaded>>

\* A direct call get_forecast(df, origin, dest).
CallGetForecast(origin, dest) ==
    /\ call' = [NoCall EXCEPT !.op = "get_forecast", !.origin = origin, !.dest = dest]
    /\ \E pred \in ForecastDraws(columns, df, origin, dest) :
           fc' = get_forecast(columns, df, origin, dest, pred)
    /\ df' = TableAfterForecast(df, origin, dest)
    /\ audit' = UnsetFrame
    /\ kpi' = NoKpi
    /\ view_df' = {}
    /\ warning' = FALSE
    /\ UNCHANGED <<columns, loaded>>

\* Lines 131-197 with the hub picked in the sidebar, the region picked in
\* tab2, the destination picked in tab3 and the button pressed or not.
ScriptRun(hub, region, target, pressed) ==
    LET hubs  == {r.ORIGIN : r \in df}
        after == TableAfterAudit(df, hub)
    IN /\ IF hubs = {} THEN hub = "None" ELSE hub \in hubs
       /\ UNCHANGED <<columns, loaded>>
       /\ \E stats \in {run_audit(df, hub)} :
            /\ audit' = stats
            /\ IF stats.state = "None"
               THEN /\ region = "All" /\ target = "" /\ ~pressed
                    /\ call' = [NoCall EXCEPT !.op = "script", !.hub = hub]
                    /\ warning' = TRUE
                    /\ kpi' = NoKpi
                    /\ view_df' = {}
                    /\ fc' = UnsetForecast
                    /\ df' = after
               ELSE /\ region \in {"All"} \cup {s.Region : s \in stats.rows}
                    /\ target \in {s.Dest_Label : s \in stats.rows}
                    /\ call' = [op |-> "script", hub |-> hub, region |-> region,
                                pressed |-> pressed, origin |-> hub, dest |-> target]
                    /\ warning' = FALSE
                    /\ \E top \in {s \in stats.rows :
                                     \A x \in stats.rows : x.Profit <= s.Profit} :
                           kpi' = KpiRow(stats.rows, top)
                    /\ view_df' = ViewDf(stats.rows, region)
                    /\ IF pressed
                       THEN /\ \E pred \in ForecastDraws(columns, after, hub, target) :
                                   fc' = get_forecast(columns, after, hub, target, pred)
                            /\ df' = TableAfterForecast(after, hub, target)
                       ELSE /\ fc' = UnsetForecast
                            /\ df' = after

Regions == {"All", "United Kingdom", "Canada", "Global"}

Next ==
    \/ \E hub \in HubArgs : CallRunAudit(hub)
    \/ \E origin \in HubArgs, dest \in DestArgs : CallGetForecast(origin, dest)
    \/ \E hub \in Hubs \cup {"None"}, region \in Regions,
          target \in DestArgs \cup {""}, pressed \in BOOLEAN :
           ScriptRun(hub, region, target, pressed)

Spec == Init /\ [][Next]_vars

(***************************************************************************)
(* Properties.                                                             *)
(***************************************************************************)
Statuses == {"Monopoly", "Competitive", "Minor Player"}

\* The records get_forecast matches for the last call's arguments.
ByCity ==
    IF "DEST_CITY_NAME" \in columns
    THEN {r \in df : r.ORIGIN = call.origin /\ r.DEST_CITY_NAME = call.dest}
    ELSE {}
ByCode == {r \in df : r.ORIGIN = call.origin /\ r.DEST = call.dest}
Matched == IF ByCity # {} THEN ByCity ELSE ByCode
TrainingKeys == {<<r.YEAR, r.MONTH>> : r \in {x \in Matched : x.YEAR \notin {2020, 2021}}}
Historical == SelectSeq(fc.series, LAMBDA p : p.Type = "Historical")
Forecast == SelectSeq(fc.series, LAMBDA p : p.Type = "Forecast")

\* C1: every row run_audit returns has exactly one of the three statuses:
\* Monopoly iff its share is above 50, Competitive iff it is above 20 and at
\* most 50, Minor Player iff it is at most 20 -- also where the destination's
\* total is 0 and the share undefined.
C1_StatusIsTotal ==
    audit.state = "frame" =>
        \A s \in audit.rows :
            /\ s.Status \in Statuses
            /\ s.Status = "Monopoly" <=> FGt(s.Market_Share, 50)
            /\ s.Status = "Competitive" <=>
                  (FGt(s.Market_Share, 20) /\ FLe(s.Market_Share, 50))
            /\ s.Status = "Minor Player" <=> FLe(s.Market_Share, 20)

RECURSIVE SumShares(_)
SumShares(S) ==
    IF S = {} THEN 0
    ELSE LET s == CHOOSE x \in S : TRUE
         IN s.Market_Share.n + SumShares(S \ {s})

\* C2: City_Total of a row is the sum of PASSENGERS over the result rows of
\* its destination, whatever their airline and region, and the shares of those
\* rows add up to 100.
C2_SharesSumTo100 ==
    audit.state = "frame" =>
        \A s \in audit.rows :
            LET city == {x \in audit.rows : x.Dest_Label = s.Dest_Label}
            IN /\ s.City_Total = SumField(city, "PASSENGERS")
               /\ \A x \in city : /\ x.Market_Share.kind = "num"
                                  /\ x.Market_Share.d = s.City_Total
               /\ SumShares(city) = 100 * s.City_Total

\* C3: run_audit takes max_year over the whole table, aggregates exactly the
\* records of that year and the hub, returns None iff there are none, and
\* otherwise one row per (Region, Dest_Label, Airline_Label) among them with
\* the sums of PASSENGERS, SEATS and DEPARTURES_PERFORMED of the group.
C3_AuditSelection ==
    audit.state # "unset" =>
        LET sel == {r \in df : /\ r.ORIGIN = call.hub
                               /\ \A x \in df : x.YEAR <= r.YEAR}
            Key(r) == <<r.Region, r.Dest_Label, r.Airline_Label>>
        IN /\ audit.state = "None" <=> sel = {}
           /\ audit.state = "None" => audit.rows = {}
           /\ {Key(s) : s \in audit.rows} = {Key(r) : r \in sel}
           /\ \A s \in audit.rows :
                LET g == {r \in sel : Key(r) = Key(s)}
                IN /\ \A x \in audit.rows : Key(x) = Key(s) => x = s
                   /\ s.PASSENGERS = SumField(g, "PASSENGERS")
                   /\ s.SEATS = SumField(g, "SEATS")
                   /\ s.DEPARTURES_PERFORMED = SumField(g, "DEPARTURES_PERFORMED")

\* A hub with records in both years was audited and a group of two records
\* was summed.
C3_Witness ==
    /\ call.op = "run_audit"
    /\ audit.state = "frame"
    /\ \E r \in df : r.ORIGIN = call.hub /\ r.YEAR = 2021
    /\ \E s \in audit.rows : s.PASSENGERS = 5 /\ s.DEPARTURES_PERFORMED = 2

\* C4: the points a model is fitted to never have YEAR 2020 or 2021, while
\* the Historical points of a "Success" result hold every (YEAR, MONTH) of
\* the matched records, those of 2020 and 2021 too.
C4_TrainingSkipsCovid ==
    fc.state = "returned" =>
        /\ \A i \in 1..Len(fc.training) : fc.training[i].YEAR \notin {2020, 2021}
        /\ fc.status = "Success" =>
              /\ fc.fitted
              /\ {<<r.YEAR, r.MONTH>> : r \in Matched}
                    = {<<Historical[i].YEAR, Historical[i].MONTH>> :
                          i \in 1..Len(Historical)}

\* A model was fitted for a route that has months of 2021.
C4_Witness ==
    /\ fc.state = "returned"
    /\ fc.status = "Success"
    /\ Len(fc.training) >= 12
    /\ \E i \in 1..Len(Historical) : Historical[i].YEAR = 2021

\* C5: for a matched route the result is "Not Enough Data", with no series
\* and no model fitted, iff fewer than 12 distinct (YEAR, MONTH) points lie
\* outside 2020 and 2021; with 12 or more it is "Success".
C5_NotEnoughData ==
    (fc.state = "returned" /\ Matched # {}) =>
        /\ fc.status = "Not Enough Data" <=> Cardinality(TrainingKeys) < 12
        /\ fc.status = "Success" <=> Cardinality(TrainingKeys) >= 12
        /\ fc.status = "Not Enough Data" =>
              fc.series = <<>> /\ ~fc.fitted /\ fc.training = <<>>

\* Eleven months outside the Covid years and twelve inside were matched.
C5_Witness ==
    /\ fc.state = "returned"
    /\ fc.status = "Not Enough Data"
    /\ Cardinality(TrainingKeys) = 11
    /\ Cardinality({<<r.YEAR, r.MONTH>> : r \in Matched} \ TrainingKeys) = 12

\* C6: every destination tab3 offers, which is every Dest_Label of the
\* audit, is forecast for the audited hub without an error and without
\* "No Data", with or without a DEST_CITY_NAME column in the table.
C6_AuditDestsForecast ==
    (call.op = "script" /\ call.pressed) =>
        /\ fc.state = "returned"
        /\ fc.status # "No Data"

\* C7: the city-name match is used when it is not empty and the code match
\* otherwise, the result is (None, "No Data") iff both are empty, and no call
\* raises -- also on a table without a city-name column.
C7_NoDataNeverRaises ==
    fc.state # "unset" =>
        /\ fc.state = "returned"
        /\ fc.status = "No Data" <=> (ByCity = {} /\ ByCode = {})
        /\ fc.status = "No Data" => fc.series = <<>>
        /\ fc.status = "Success" =>
              {<<r.YEAR, r.MONTH>> : r \in Matched}
                 = {<<Historical[i].YEAR, Historical[i].MONTH>> :
                       i \in 1..Len(Historical)}

\* C8: a "Success" series is the Historical points in ascending (YEAR,
\* MONTH) order followed by 12 Forecast points, one per MONTH 1..12, of the
\* year after the latest year of the matched records (Covid years counted).
C8_ForecastYear ==
    (fc.state = "returned" /\ fc.status = "Success") =>
        LET h == Len(fc.series) - 12
            L == SetMax({r.YEAR : r \in Matched})
        IN /\ h >= 1
           /\ \A i \in 1..h : fc.series[i].Type = "Historical"
           /\ \A i \in 1..(h - 1) :
                \/ fc.series[i].YEAR < fc.series[i + 1].YEAR
                \/ /\ fc.series[i].YEAR = fc.series[i + 1].YEAR
                   /\ fc.series[i].MONTH < fc.series[i + 1].MONTH
           /\ \A m \in 1..12 :
                /\ fc.series[h + m].Type = "Forecast"
                /\ fc.series[h + m].MONTH = m
                /\ fc.series[h + m].YEAR = L + 1
           /\ \A i \in 1..h : fc.series[i].YEAR <= L

\* The latest observed year of a forecast route is a Covid year.
C8_Witness ==
    /\ fc.state = "returned"
    /\ fc.status = "Success"
    /\ \A r \in Matched : r.YEAR <= 2021
    /\ \E r \in Matched : r.YEAR = 2021
    /\ Len(Forecast) = 12

\* C9: no row the page shows (the treemap's colour, tab2's table) carries
\* an undefined Margin, also when a route's revenue is 0.
C9_MarginDefined ==
    call.op = "script" =>
        /\ \A s \in audit.rows : s.Margin.kind = "num"
        /\ \A v \in view_df : v.Margin.kind = "num"

\* C10: no call changes the table, and every call returns what it returns
\* on the table as loaded: run_audit its result, get_forecast its status
\* and its Historical points.
C10_CallsLeaveTable ==
    /\ df = loaded.rows
    /\ columns = loaded.columns
    /\ audit.state # "unset" => audit = run_audit(loaded.rows, call.hub)
    /\ fc.state # "unset" =>
          LET fresh == get_forecast(loaded.columns, loaded.rows, call.origin,
                                    call.dest, [m \in ForecastMonths |-> 0])
          IN /\ fc.state = fresh.state
             /\ fc.status = fresh.status
             /\ Historical = SelectSeq(fresh.series, LAMBDA p : p.Type = "Historical")

\* A forecast was returned for a table that holds rows of 2021.
C10_Witness ==
    /\ call.op = "script"
    /\ call.pressed
    /\ fc.status = "Success"
    /\ audit.state = "frame"
    /\ \E r \in df : r.YEAR = 2021

====
